---- MODULE Spec2Model ----
(***************************************************************************)
(* Career Scout backend: the Job service (business rules), the Job         *)
(* repository (persistence) and the jobs table, as a state machine.        *)
(*                                                                         *)
(* Every request runs on a session of its own (api/deps.py).  A request    *)
(* is atomic between two awaits on the database: create_job and get_job    *)
(* are one database step, update_job and delete_job are a read step        *)
(* (repo.get_by_id) followed by a write step (validation, repo.update),    *)
(* and other requests may commit between the two.                          *)
(*                                                                         *)
(* Python None is the empty tuple and a present value v is <<v>>, so that  *)
(* an explicit null in a payload differs from an unset field.  A payload   *)
(* is a function from the names of the fields that were set to values      *)
(* (model_dump(exclude_unset=True)).  Strings that are measured or         *)
(* matched (descriptions, hostnames) are tuples of characters.             *)
(*                                                                         *)
(* Columns of Job that only pass through (company, location, job_type,     *)
(* scraped_at, skills, salary_range) follow the path of title and are not  *)
(* duplicated here.                                                        *)
(***************************************************************************)
EXTENDS Integers, Sequences, FiniteSets, TLC

VARIABLES
    jobs,            \* the jobs table: id -> row
    jobs_id_seq,     \* last value of the id sequence
    now,             \* the clock, in days
    sess,            \* the request running on each session
    calls,           \* requests started
    create_answers   \* per provenance pair, the statuses answered to the
                     \* creates that passed validation, in order

vars == <<jobs, jobs_id_seq, now, sess, calls, create_answers>>

----------------------------------------------------------------------------
(* Bounds *)

\* Requests started in one behaviour.
MaxCalls == 3
\* Days the clock advances.
MaxNow == 1

----------------------------------------------------------------------------
(* Values *)

None == <<>>
Some(v) == <<v>>
Val(o) == o[1]

Restrict(f, S) == [k \in S |-> f[k]]

Sessions == {"s1", "s2"}

PLATFORM_DOMAINS ==
    [linkedin |-> <<"l","i","n","k","e","d","i","n",".","c","o","m">>,
     seek     |-> <<"s","e","e","k",".","c","o","m",".","a","u">>,
     indeed   |-> <<"i","n","d","e","e","d",".","c","o","m">>]

PROTECTED_UPDATE_FIELDS == {"id", "created_at", "updated_at"}
\* A create that protects no field.
PROTECTED_CREATE_FIELDS_none == {}

PROTECTED_CREATE_FIELDS == {"id", "created_at"}

\* Job.__table__.columns, as far as modelled.
ColumnNames ==
    {"id", "created_at", "updated_at", "external_id", "platform", "url",
     "title", "description_short", "description_full", "posted_date",
     "is_active"}

\* Columns declared nullable=False that a payload can address.
NotNullColumns == {"external_id", "platform", "url", "title", "is_active"}

----------------------------------------------------------------------------
(* URLs *)

\* A URL string: its network location and the rest of its text.
Url(netloc, rest) == [netloc |-> netloc, rest |-> rest]

HostLinkedin == PLATFORM_DOMAINS.linkedin
HostLinkedinSub == <<"a","u",".">> \o PLATFORM_DOMAINS.linkedin
HostNotLinkedin == <<"x">> \o PLATFORM_DOMAINS.linkedin
HostSeek == PLATFORM_DOMAINS.seek

\* str(value) of a payload url: the text of the URL, and "None" for None.
StrUrl(u) == IF u = None THEN Url(<<>>, "None") ELSE Val(u)

UpperCase == [A |-> "a", L |-> "l", S |-> "s", X |-> "x"]

LowerChar(c) == IF c \in DOMAIN UpperCase THEN UpperCase[c] ELSE c

Lower(str) == [i \in 1..Len(str) |-> LowerChar(str[i])]

\* (urlparse(raw_url).hostname or "").lower()
Hostname(raw_url) == Lower(raw_url.netloc)

EndsWith(str, suffix) ==
    /\ Len(suffix) <= Len(str)
    /\ SubSeq(str, Len(str) - Len(suffix) + 1, Len(str)) = suffix

\* The match without the dot in front of the domain.
_domain_matches_any_suffix(hostname, expected) ==
    \/ hostname = expected
    \/ EndsWith(hostname, expected)

_domain_matches(hostname, expected) ==
    \/ hostname = expected
    \/ EndsWith(hostname, <<".">> \o expected)

----------------------------------------------------------------------------
(* Faults and HTTP answers *)

\* Message texts, cut where a value of the request is formatted into them.
MsgFuture == <<"posted_date cannot be in the future.">>
MsgNoHostname == <<"url must include a valid hostname.">>
MsgDomainMismatch(platform) ==
    <<"URL domain '", "' does not match platform '", platform, "'.">>
MsgInvalidPlatform(platform) ==
    <<"Invalid platform '", platform, "'. Allowed values: ">>
MsgExternalIdImmutable == <<"external_id cannot be changed after creation.">>
MsgPlatformImmutable == <<"platform cannot be changed after creation.">>
MsgMustGrow(field_name) ==
    <<field_name, " updates must be longer than the existing value.">>
MsgAlreadyExists ==
    <<"A job with this external_id already exists for the selected platform.">>
MsgMustRemainUnique ==
    <<"Cannot update job because external_id/platform must remain unique.">>
MsgCreateFailed(exc) == <<"Failed to create job: ">> \o exc
MsgUpdateFailed(exc) == <<"Failed to update job: ">> \o exc
MsgDeleteFailed(exc) == <<"Failed to delete job: ">> \o exc
MsgNotFound == <<"Job ", " not found.">>
MsgFetchJobFailed == <<"Failed to fetch job.">>
MsgUpdateJobFailed == <<"Failed to update job.">>
MsgDeleteJobFailed == <<"Failed to delete job.">>
MsgListJobsFailed == <<"Failed to list jobs.">>

\* Messages of the errors the repository raises.
MsgDuplicateJob == <<"A job with this external_id and platform already exists.">>
MsgIntegrity(op) == <<"Failed to ", op, " job due to integrity error.">>
MsgWriteFailed(op) == <<"Failed to ", op, " job.">>
MsgFetchFailed(what) == <<"Failed to fetch ", what, ".">>
MsgProtectedCreate(blocked) == <<"Cannot set protected fields: ", blocked>>
MsgProtectedUpdate(field) == <<"Cannot update protected field: ", field>>
MsgUnknownField(field) == <<"Unknown or unsafe update field: ", field>>
MsgModelInvalidPlatform(value) ==
    <<"Invalid platform '", value, "'. Allowed values: indeed, linkedin, seek.">>
MsgSkipNegative == <<"skip must be greater than or equal to 0">>
MsgLimitLow == <<"limit must be at least 1">>
MsgLimitHigh == <<"limit cannot exceed 1000">>
MsgNoToList == <<"'JobRepository' object has no attribute '_to_list'">>

\* A platform name a request may carry that is not a platform.
PlatformAlreadyExists == "already exists"

\* The pieces of text, of messages and of request values, in which "already
\* exists" or "must remain unique" occurs once lower-cased.
ConflictPhrased ==
    {MsgAlreadyExists[1], MsgMustRemainUnique[1], MsgDuplicateJob[1], PlatformAlreadyExists}

HasConflictPhrase(detail) == \E i \in 1..Len(detail) : detail[i] \in ConflictPhrased

Ok(status, body) ==
    [kind |-> "ok", detail |-> <<>>, status |-> status, body |-> body]

\* api/v1/jobs.py: NotFoundError -> 404 on every route that catches it.
NotFound == [kind |-> "NotFoundError", detail |-> MsgNotFound, status |-> 404, body |-> None]

\* api/v1/jobs.py create_job / update_job: BusinessLogicError -> 409 when the
\* detail is conflict-phrased, 400 otherwise.
WriteFault(detail) ==
    [kind |-> "BusinessLogicError", detail |-> detail,
     status |-> IF HasConflictPhrase(detail) THEN 409 ELSE 400, body |-> None]

\* api/v1/jobs.py get_job / delete_job / list_jobs: BusinessLogicError -> 400.
PlainFault(detail) ==
    [kind |-> "BusinessLogicError", detail |-> detail, status |-> 400, body |-> None]

\* An exception no except clause of the service or of the route names: the
\* framework answers 500.
Unhandled(kind, detail) == [kind |-> kind, detail |-> detail, status |-> 500, body |-> None]

----------------------------------------------------------------------------
(* Service validation (services/job_service.py) *)

Today == now

\* The date guard comparing against tomorrow.
_validate_posted_date_late(posted_date, today) ==
    IF posted_date # None /\ Val(posted_date) > today + 1
    THEN Some(MsgFuture)
    ELSE None

\* Each validator yields None when it passes and Some(detail) when it raises.
_validate_posted_date(posted_date, today) ==
    IF posted_date # None /\ Val(posted_date) > today
    THEN Some(MsgFuture)
    ELSE None

\* The import of the service fails unless ALLOWED_PLATFORMS holds the keys of
\* PLATFORM_DOMAINS.
ALLOWED_PLATFORMS == DOMAIN PLATFORM_DOMAINS

_validate_url_for_platform(raw_url, platform) ==
    IF platform \notin DOMAIN PLATFORM_DOMAINS
    THEN Some(MsgInvalidPlatform(platform))
    ELSE IF Hostname(raw_url) = <<>>
    THEN Some(MsgNoHostname)
    ELSE IF ~_domain_matches(Hostname(raw_url), PLATFORM_DOMAINS[platform])
    THEN Some(MsgDomainMismatch(platform))
    ELSE None

\* The guard without its test of platform.
ImmutableFault_external_id_only(existing, updates) ==
    IF "external_id" \in DOMAIN updates /\ updates["external_id"] # existing.external_id
    THEN Some(MsgExternalIdImmutable)
    ELSE None

\* The raising half of _validate_and_strip_immutable_fields.
ImmutableFault(existing, updates) ==
    IF "external_id" \in DOMAIN updates /\ updates["external_id"] # existing.external_id
    THEN Some(MsgExternalIdImmutable)
    ELSE IF "platform" \in DOMAIN updates /\ updates["platform"] # existing.platform
    THEN Some(MsgPlatformImmutable)
    ELSE None

\* The guard without its two pops.
StripImmutable_kept(updates) == updates

\* The popping half of _validate_and_strip_immutable_fields.
StripImmutable(updates) ==
    Restrict(updates, DOMAIN updates \ {"external_id", "platform"})

\* len(current_value or "") and len(next_value)
DescLen(value) == IF value = None THEN 0 ELSE Len(Val(value))

\* The growth test with < for <=.
GrowthFault_shorter_only(existing, updates, field_name) ==
    /\ field_name \in DOMAIN updates
    /\ updates[field_name] # None
    /\ DescLen(updates[field_name]) < DescLen(existing[field_name])

GrowthFault(existing, updates, field_name) ==
    /\ field_name \in DOMAIN updates
    /\ updates[field_name] # None
    /\ DescLen(updates[field_name]) <= DescLen(existing[field_name])

_validate_description_growth(existing, updates) ==
    IF GrowthFault(existing, updates, "description_short")
    THEN Some(MsgMustGrow("description_short"))
    ELSE IF GrowthFault(existing, updates, "description_full")
    THEN Some(MsgMustGrow("description_full"))
    ELSE None

----------------------------------------------------------------------------
(* The jobs table and the repository (models/job.py, repositories/job.py) *)

Get(d, k, default) == IF k \in DOMAIN d THEN d[k] ELSE default

\* Job(**job_data) as INSERTed: columns not given take their defaults.
NewJob(id, job_data, clock) ==
    [id                |-> id,
     created_at        |-> clock,
     updated_at        |-> clock,
     external_id       |-> Get(job_data, "external_id", None),
     platform          |-> Get(job_data, "platform", None),
     url               |-> Get(job_data, "url", None),
     title             |-> Get(job_data, "title", None),
     description_short |-> Get(job_data, "description_short", None),
     description_full  |-> Get(job_data, "description_full", None),
     posted_date       |-> Get(job_data, "posted_date", None),
     is_active         |-> Get(job_data, "is_active", Some(TRUE))]

\* The table without its unique constraint.
uq_jobs_external_id_platform_dropped(table, row) == TRUE

\* UniqueConstraint("external_id", "platform"): row may be stored in table.
uq_jobs_external_id_platform(table, row) ==
    \A i \in DOMAIN table :
        i # row.id =>
            ~(table[i].external_id = row.external_id /\ table[i].platform = row.platform)

\* CheckConstraint ck_jobs_platform_valid and the validates("platform") hook.
validate_platform(value) == value # None /\ Val(value) \in DOMAIN PLATFORM_DOMAINS

NotNullOk(row) == \A c \in NotNullColumns : row[c] # None

\* str(error.orig).lower() of an IntegrityError, as the set of the phrases
\* that occur in it.  The text is the server's message followed by its DETAIL
\* line: the key of a unique violation, the failing row of any other
\* constraint violation.
UniqueViolationText ==
    {"duplicate key value violates unique constraint", "unique constraint",
     "uq_jobs_external_id_platform", "external_id", "platform", "already exists"}

\* Titles a record may carry, and the phrases of _is_duplicate_job_error that
\* occur in each once lower-cased.
TitleDba == "DBA: unique constraint on (external_id, platform)"

Mentions(value) ==
    IF value = Some(TitleDba)
    THEN {"unique constraint", "external_id", "platform"}
    ELSE {}

\* The phrases of the values quoted in "Failing row contains (...)".
RowText(row) == UNION {Mentions(row[c]) : c \in {"external_id", "platform", "title"}}

NotNullViolationText(row) ==
    {"null value in column", "violates not-null constraint"}
    \cup {c \in NotNullColumns : row[c] = None}
    \cup RowText(row)

\* The heuristic looking for a constraint name the schema does not use.
_is_duplicate_job_error_misnamed(error_text) ==
    /\ "duplicate key value violates unique constraint" \in error_text
    /\ "uq_jobs_platform_external_id" \in error_text

_is_duplicate_job_error(error_text) ==
    \/ /\ "duplicate key value violates unique constraint" \in error_text
       /\ "uq_jobs_external_id_platform" \in error_text
    \/ /\ "unique constraint" \in error_text
       /\ "external_id" \in error_text
       /\ "platform" \in error_text

\* except IntegrityError in create and update: the error the repository raises.
IntegrityRaises(error_text) ==
    IF _is_duplicate_job_error(error_text) THEN "DuplicateJobError" ELSE "RepositoryError"

\* A failure of the storage engine during one repository call: the step of
\* the call at which the session raises SQLAlchemyError ("none" when no step
\* does), and whether the rollback that follows a failed write raises too.
StorageFault(at, rollback) == [at |-> at, rollback |-> rollback]

NoFault == StorageFault("none", FALSE)

StorageSteps == {"none", "execute", "commit", "refresh", "delete"}

StorageFaults == {StorageFault(at, rollback) : at \in StorageSteps, rollback \in BOOLEAN}

\* How a repository call ends: the exception it raises ("" when it returns)
\* with its message, the table it leaves, the value it returns, the step at
\* which the storage engine failed ("" when none did), the constraint the
\* write violated ("" when none) and whether a rollback was attempted.
Outcome(raised, message, table, job, failed, constraint, rolled_back) ==
    [raised |-> raised, message |-> message, jobs |-> table, job |-> job,
     failed |-> failed, constraint |-> constraint, rolled_back |-> rolled_back]

Returned(table, job) == Outcome("", <<>>, table, job, "", "", FALSE)

\* raise ValueError(...): no except clause of the repository catches it.
Invalid(message, table) == Outcome("ValueError", message, table, None, "", "", FALSE)

\* A fetch whose failure leaves the repository as the storage engine raised it.
ExecuteFailed_raw(message, table) ==
    Outcome("SQLAlchemyError", <<"boom">>, table, None, "execute", "", FALSE)

\* except SQLAlchemyError around the queries: RepositoryError(message).
ExecuteFailed(message, table) ==
    Outcome("RepositoryError", message, table, None, "execute", "", FALSE)

\* A rollback helper without its try: the error of the rollback leaves it.
_rollback_safely_unguarded(fault) == IF fault.rollback THEN "SQLAlchemyError" ELSE ""

\* BaseRepository._rollback_safely: the exception that leaves it ("" when
\* none does); the error of a failed rollback is logged.
_rollback_safely(fault) == ""

\* The except clauses around a write: _rollback_safely(), then the raise.
WriteFailed(kind, message, table, failed, constraint, fault) ==
    LET escaped == _rollback_safely(fault) IN
    IF escaped = ""
    THEN Outcome(kind, message, table, None, failed, constraint, TRUE)
    ELSE Outcome(escaped, <<"rollback failed">>, table, None, failed, constraint, TRUE)

\* except IntegrityError around a write.
IntegrityFailed(op, error_text, constraint, table, fault) ==
    WriteFailed(IntegrityRaises(error_text),
        IF _is_duplicate_job_error(error_text) THEN MsgDuplicateJob ELSE MsgIntegrity(op),
        table, "commit", constraint, fault)

\* The outcome of create together with the last value of the id sequence.
WithSeq(outcome, seq) == [seq |-> seq] @@ outcome

\* JobRepository.create: the INSERT takes the next id of the sequence whether
\* or not it is then rejected by a constraint.
RepoCreate(table, seq, job_data, clock, fault) ==
    LET row == NewJob(seq + 1, job_data, clock)
        stored == (seq + 1 :> row) @@ table
        blocked == PROTECTED_CREATE_FIELDS \cap DOMAIN job_data
    IN
    IF blocked # {}
    THEN WithSeq(Invalid(MsgProtectedCreate(blocked), table), seq)
    ELSE IF "platform" \in DOMAIN job_data /\ ~validate_platform(job_data["platform"])
    THEN WithSeq(Invalid(MsgModelInvalidPlatform(job_data["platform"]), table), seq)
    ELSE IF fault.at = "commit"
    THEN WithSeq(WriteFailed("RepositoryError", MsgWriteFailed("create"), table,
                    "commit", "", fault), seq)
    ELSE IF ~NotNullOk(row)
    THEN WithSeq(IntegrityFailed("create", NotNullViolationText(row), "not-null",
                    table, fault), seq + 1)
    ELSE IF ~uq_jobs_external_id_platform(table, row)
    THEN WithSeq(IntegrityFailed("create", UniqueViolationText,
                    "uq_jobs_external_id_platform", table, fault), seq + 1)
    ELSE IF fault.at = "refresh"
    THEN WithSeq(WriteFailed("RepositoryError", MsgWriteFailed("create"), stored,
                    "refresh", "", fault), seq + 1)
    ELSE WithSeq(Returned(stored, Some(row)), seq + 1)

\* The columns the flush writes: the attributes whose new value differs from
\* the value the session loaded (no net change, no SET).
NetChanges(loaded, job_data) == {f \in DOMAIN job_data : job_data[f] # loaded[f]}

\* A flush that writes every column of the entity the session holds.
Updated_whole_entity(row, loaded, job_data, clock) ==
    [c \in DOMAIN row |->
        IF c \in DOMAIN job_data THEN job_data[c]
        ELSE IF c = "updated_at" THEN clock
        ELSE loaded[c]]

\* UPDATE jobs SET <net changes>, updated_at = now() WHERE id = loaded.id
Updated(row, loaded, job_data, clock) ==
    IF NetChanges(loaded, job_data) = {}
    THEN row
    ELSE [c \in DOMAIN row |->
             IF c \in NetChanges(loaded, job_data) THEN job_data[c]
             ELSE IF c = "updated_at" THEN clock
             ELSE row[c]]

\* JobRepository.update on a session whose identity map holds `loaded`
\* (None when the session has not loaded the row).
RepoUpdate(table, job_id, job_data, loaded, clock, fault) ==
    IF fault.at = "execute"
    THEN ExecuteFailed(MsgFetchFailed("job for update"), table)
    ELSE IF job_id \notin DOMAIN table
    THEN Returned(table, None)
    ELSE
    LET entity == IF loaded = None THEN table[job_id] ELSE Val(loaded)
        row == Updated(table[job_id], entity, job_data, clock)
        written == [table EXCEPT ![job_id] = row]
        protected == DOMAIN job_data \cap PROTECTED_UPDATE_FIELDS
        unknown == DOMAIN job_data \ ColumnNames
    IN
    IF protected # {}
    THEN Invalid(MsgProtectedUpdate(CHOOSE f \in protected : TRUE), table)
    ELSE IF unknown # {}
    THEN Invalid(MsgUnknownField(CHOOSE f \in unknown : TRUE), table)
    ELSE IF "platform" \in DOMAIN job_data /\ ~validate_platform(job_data["platform"])
    THEN Invalid(MsgModelInvalidPlatform(job_data["platform"]), table)
    ELSE IF fault.at = "commit"
    THEN WriteFailed("RepositoryError", MsgWriteFailed("update"), table, "commit", "", fault)
    ELSE IF ~NotNullOk(row)
    THEN IntegrityFailed("update", NotNullViolationText(row), "not-null", table, fault)
    ELSE IF ~uq_jobs_external_id_platform(table, row)
    THEN IntegrityFailed("update", UniqueViolationText, "uq_jobs_external_id_platform",
            table, fault)
    ELSE IF fault.at = "refresh"
    THEN WriteFailed("RepositoryError", MsgWriteFailed("update"), written, "refresh", "", fault)
    ELSE Returned(written, Some(row))

\* JobRepository.delete: the row is removed; job is Some(TRUE) when it was.
RepoDelete(table, job_id, fault) ==
    IF fault.at = "execute"
    THEN ExecuteFailed(MsgFetchFailed("job for delete"), table)
    ELSE IF job_id \notin DOMAIN table
    THEN Returned(table, Some(FALSE))
    ELSE IF fault.at \in {"delete", "commit"}
    THEN WriteFailed("RepositoryError", MsgWriteFailed("delete"), table, fault.at, "", fault)
    ELSE Returned(Restrict(table, DOMAIN table \ {job_id}), Some(TRUE))

\* JobRepository.get_by_id
RepoGetById(table, job_id, fault) ==
    IF fault.at = "execute"
    THEN ExecuteFailed(MsgFetchFailed("job by id"), table)
    ELSE Returned(table, IF job_id \in DOMAIN table THEN Some(table[job_id]) ELSE None)

\* JobRepository.get_by_external_id
RepoGetByExternalId(table, external_id, platform, fault) ==
    LET found == {i \in DOMAIN table : /\ table[i].external_id = Some(external_id)
                                        /\ table[i].platform = Some(platform)}
    IN
    IF fault.at = "execute"
    THEN ExecuteFailed(MsgFetchFailed("job by external identifier"), table)
    ELSE IF found = {}
    THEN Returned(table, None)
    ELSE IF Cardinality(found) = 1
    THEN Returned(table, Some(table[CHOOSE i \in found : TRUE]))
    ELSE ExecuteFailed(MsgFetchFailed("job by external identifier"), table)

\* The ids of a set, largest first: ORDER BY id DESC.
RECURSIVE Descending(_)
Descending(ids) ==
    IF ids = {}
    THEN <<>>
    ELSE LET top == CHOOSE i \in ids : \A j \in ids : j <= i
         IN <<top>> \o Descending(ids \ {top})

Min(a, b) == IF a <= b THEN a ELSE b

\* SELECT ... WHERE is_active = :is_active [AND platform = :platform]
\* ORDER BY id DESC OFFSET :skip LIMIT :limit
Select(table, skip, limit, platform, is_active) ==
    LET matching == {i \in DOMAIN table :
                        /\ table[i].is_active = Some(is_active)
                        /\ platform # None => table[i].platform = platform}
        ordered == Descending(matching)
        page == SubSeq(ordered, skip + 1, Min(skip + limit, Len(ordered)))
    IN [k \in 1..Len(page) |-> table[page[k]]]

\* The largest limit get_all accepts.
MaxLimit == 1000

\* self._to_list(rows): BaseRepository defines _list_with_pagination and no
\* _to_list, so the attribute lookup raises.
_to_list(rows, table) == Outcome("AttributeError", MsgNoToList, table, None, "", "", FALSE)

\* JobRepository.get_all
RepoGetAll(table, skip, limit, platform, is_active, fault) ==
    IF skip < 0
    THEN Invalid(MsgSkipNegative, table)
    ELSE IF limit < 1
    THEN Invalid(MsgLimitLow, table)
    ELSE IF limit > MaxLimit
    THEN Invalid(MsgLimitHigh, table)
    ELSE IF fault.at = "execute"
    THEN ExecuteFailed(MsgFetchFailed("jobs"), table)
    ELSE _to_list(Select(table, skip, limit, platform, is_active), table)

----------------------------------------------------------------------------
(* Requests *)

EmptyMap == [k \in {} |-> None]

ExternalIds == {"j1", "j2"}
PayloadPlatforms == {"linkedin", "seek", "monster"}
UrlLinkedin == Url(HostLinkedin, "/jobs/1")
UrlSeek == Url(HostSeek, "/jobs/1")
Urls == {UrlLinkedin, Url(HostLinkedinSub, "/jobs/1"), Url(HostNotLinkedin, "/jobs/1"), UrlSeek}
Descriptions == {<<"a">>, <<"b", "c">>, <<"d", "e">>}
PostedDates == 1..(MaxNow + 1)

\* JobCreate with its required fields.
Required(e, p, u) ==
    [external_id |-> Some(e), platform |-> Some(p), url |-> Some(u),
     title |-> Some("Engineer")]

\* JobUpdate: every field is optional and may be an explicit null.
UpdateValues ==
    [external_id       |-> {Some(e) : e \in ExternalIds},
     platform          |-> {Some("linkedin"), Some("seek")},
     url               |-> {Some(u) : u \in Urls} \cup {None},
     title             |-> {Some("Senior Engineer"), None},
     description_short |-> {Some(x) : x \in Descriptions} \cup {Some(<<>>), None},
     description_full  |-> {Some(x) : x \in Descriptions} \cup {Some(<<>>), None},
     posted_date       |-> {Some(d) : d \in PostedDates} \cup {None},
     is_active         |-> {Some(TRUE), Some(FALSE)}]

\* Payloads that set one of the given fields.
OneField(fields) == UNION {{(f :> v) : v \in UpdateValues[f]} : f \in fields}

\* The requests on the provenance pair, the url, the title and the flag.
IdentityCreates ==
    {Required(e, "linkedin", UrlLinkedin) : e \in ExternalIds}
    \cup {Required(e, "seek", UrlSeek) : e \in ExternalIds}
    \cup {Required("j1", p, u) : p \in PayloadPlatforms, u \in Urls}

IdentityUpdates ==
    {EmptyMap}
    \cup OneField({"external_id", "platform", "url", "title", "is_active"})
    \cup {p @@ q : p \in OneField({"external_id", "platform"}),
                   q \in OneField({"platform", "title"})}

\* The requests on the descriptions.
DescriptionCreates ==
    {Required("j1", "linkedin", UrlLinkedin)}
    \cup {Required("j1", "linkedin", UrlLinkedin) @@ (f :> Some(x)) :
            f \in {"description_short", "description_full"}, x \in Descriptions}

DescriptionUpdates ==
    OneField({"description_short", "description_full"})
    \cup {("description_short" :> a) @@ ("description_full" :> b) :
            a \in {Some(<<"b", "c">>), None}, b \in {Some(<<"a">>), Some(<<"b", "c">>), None}}

\* The requests on posted_date.
DateCreates ==
    {Required(e, "linkedin", UrlLinkedin) : e \in ExternalIds}
    \cup {Required("j1", "linkedin", UrlLinkedin) @@ ("posted_date" :> Some(d)) :
            d \in PostedDates}

DateUpdates == OneField({"posted_date", "title"})

Idle ==
    [pc |-> "idle", op |-> "", job_id |-> 0, payload |-> EmptyMap,
     existing |-> None, repo_calls |-> <<>>, result |-> None]

\* One call of the repository, as its caller issues it, and how it ended.
RepoCall(fn, data, r, fault) ==
    [fn |-> fn, data |-> data, raised |-> r.raised, failed |-> r.failed,
     constraint |-> r.constraint, rolled_back |-> r.rolled_back,
     rollback_failed |-> r.rolled_back /\ fault.rollback]

\* A request takes the first session that is free.
FreeSession == IF sess["s1"].pc = "idle" THEN "s1" ELSE "s2"

\* A session that is done only waits for its response to be sent; a new
\* request is taken up after that.
Begins(s) ==
    /\ s = FreeSession
    /\ sess[s].pc = "idle"
    /\ \A t \in Sessions : sess[t].pc # "done"
    /\ calls < MaxCalls
    /\ calls' = calls + 1

Finished(s, op, job_id, payload, existing, repo_calls, result) ==
    sess' = [sess EXCEPT ![s] =
                [pc |-> "done", op |-> op, job_id |-> job_id, payload |-> payload,
                 existing |-> existing, repo_calls |-> repo_calls,
                 result |-> Some(result)]]

\* Ids a request may name: every stored id and one that is not stored.
JobIds == DOMAIN jobs \cup {jobs_id_seq + 1}

TypeOK ==
    /\ jobs_id_seq \in 0..MaxCalls
    /\ DOMAIN jobs \subseteq 1..jobs_id_seq
    /\ now \in 0..MaxNow
    /\ calls \in 0..MaxCalls
    /\ \A s \in Sessions : sess[s].pc \in {"idle", "fetched", "probing", "running", "answered", "open", "done"}

Init ==
    /\ jobs = EmptyMap
    /\ jobs_id_seq = 0
    /\ now = 0
    /\ sess = [s \in Sessions |-> Idle]
    /\ calls = 0
    /\ create_answers = [pair \in ExternalIds \X DOMAIN PLATFORM_DOMAINS |-> <<>>]

\* The clock passes midnight.
Tick ==
    /\ now < MaxNow
    /\ now' = now + 1
    /\ UNCHANGED <<jobs, jobs_id_seq, sess, calls, create_answers>>

\* How recording the creation metric ends: "" when the counter is
\* incremented, else the exception that leaves increment_jobs_created, its
\* own ValueError or an error of the metrics client (OSError stands for
\* those that are not a ValueError).
MetricOutcomes == {"", "ValueError", "OSError"}

MetricRecorded == ""

\* try: increment_jobs_created(...) except ValueError: the exception that
\* leaves the statement ("" when none does).
MetricEscapes(metric) == IF metric = "ValueError" THEN "" ELSE metric

\* JobService.create_job behind POST /jobs.
CreateJob(s, payload, fault, metric) ==
    LET date_fault == _validate_posted_date(Get(payload, "posted_date", None), Today)
        raw_url == StrUrl(payload["url"])
        url_fault == _validate_url_for_platform(raw_url, Val(payload["platform"]))
        job_data == [payload EXCEPT !["url"] = Some(raw_url)]
        r == RepoCreate(jobs, jobs_id_seq, job_data, now, fault)
        result ==
            CASE r.raised = "" /\ MetricEscapes(metric) = "" -> Ok(201, r.job)
              [] r.raised = "" /\ MetricEscapes(metric) # "" ->
                    Unhandled(MetricEscapes(metric), <<>>)
              [] r.raised = "DuplicateJobError" -> WriteFault(MsgAlreadyExists)
              [] r.raised \in {"RepositoryError", "ValueError"} ->
                    WriteFault(MsgCreateFailed(r.message))
              [] OTHER -> Unhandled(r.raised, r.message)
        pair == <<Val(payload["external_id"]), Val(payload["platform"])>>
    IN
    /\ Begins(s)
    /\ IF date_fault # None
       THEN /\ Finished(s, "create_job", 0, payload, None, <<>>, WriteFault(Val(date_fault)))
            /\ UNCHANGED <<jobs, jobs_id_seq, create_answers>>
       ELSE IF url_fault # None
       THEN /\ Finished(s, "create_job", 0, payload, None, <<>>, WriteFault(Val(url_fault)))
            /\ UNCHANGED <<jobs, jobs_id_seq, create_answers>>
       ELSE /\ jobs' = r.jobs
            /\ jobs_id_seq' = r.seq
            /\ Finished(s, "create_job", 0, payload, None,
                    <<RepoCall("create", job_data, r, fault)>>, result)
            /\ create_answers' = [create_answers EXCEPT ![pair] = Append(@, result.status)]
    /\ UNCHANGED now

\* JobService.get_job behind GET /jobs/{id}.
GetJob(s, job_id, fault) ==
    LET r == RepoGetById(jobs, job_id, fault) IN
    /\ Begins(s)
    /\ Finished(s, "get_job", job_id, EmptyMap, r.job,
            <<RepoCall("get_by_id", EmptyMap, r, fault)>>,
            CASE r.raised = "RepositoryError" -> PlainFault(MsgFetchJobFailed)
              [] r.raised \notin {"", "RepositoryError"} -> Unhandled(r.raised, r.message)
              [] r.raised = "" /\ r.job = None -> NotFound
              [] OTHER -> Ok(200, r.job))
    /\ UNCHANGED <<jobs, jobs_id_seq, now, create_answers>>

\* One filter of GET /jobs.
ListQuery(skip, limit, platform, is_active) ==
    [skip |-> skip, limit |-> limit, platform |-> platform, is_active |-> is_active]

\* list_jobs without its test of the platform filter.
InvalidPlatformFilter_unchecked(platform) == FALSE

\* if platform is not None and platform not in ALLOWED_PLATFORMS
InvalidPlatformFilter(platform) ==
    platform # None /\ Val(platform) \notin ALLOWED_PLATFORMS

\* JobService.list_jobs behind GET /jobs.
ListJobs(s, query, fault) ==
    LET r == RepoGetAll(jobs, query.skip, query.limit, query.platform, query.is_active, fault)
    IN
    /\ Begins(s)
    /\ IF InvalidPlatformFilter(query.platform)
       THEN Finished(s, "list_jobs", 0, query, None, <<>>,
                PlainFault(MsgInvalidPlatform(Val(query.platform))))
       ELSE Finished(s, "list_jobs", 0, query, None,
                <<RepoCall("get_all", query, r, fault)>>,
                CASE r.raised = "" -> Ok(200, r.job)
                  [] r.raised \in {"RepositoryError", "DuplicateJobError", "ValueError"} ->
                        PlainFault(MsgListJobsFailed)
                  [] OTHER -> Unhandled(r.raised, r.message))
    /\ UNCHANGED <<jobs, jobs_id_seq, now, create_answers>>

\* The response is sent and the session of the request is closed.
Return(s) ==
    /\ sess[s].pc = "done"
    /\ sess' = [sess EXCEPT ![s] = Idle]
    /\ UNCHANGED <<jobs, jobs_id_seq, now, calls, create_answers>>

\* The request has read its record and now awaits its write.
Fetched(s, op, job_id, payload, existing, repo_calls) ==
    sess' = [sess EXCEPT ![s] =
                [pc |-> "fetched", op |-> op, job_id |-> job_id, payload |-> payload,
                 existing |-> existing, repo_calls |-> repo_calls, result |-> None]]

\* JobService.update_job behind PATCH /jobs/{id}, up to the result of
\* repo.get_by_id.
UpdateJobRead(s, job_id, payload, fault) ==
    LET r == RepoGetById(jobs, job_id, fault)
        repo_calls == <<RepoCall("get_by_id", EmptyMap, r, fault)>>
    IN
    /\ Begins(s)
    /\ IF r.raised = "RepositoryError"
       THEN Finished(s, "update_job", job_id, payload, None, repo_calls,
                WriteFault(MsgUpdateJobFailed))
       ELSE IF r.raised # ""
       THEN Finished(s, "update_job", job_id, payload, None, repo_calls,
                Unhandled(r.raised, r.message))
       ELSE IF r.job = None
       THEN Finished(s, "update_job", job_id, payload, None, repo_calls, NotFound)
       ELSE Fetched(s, "update_job", job_id, payload, r.job, repo_calls)
    /\ UNCHANGED <<jobs, jobs_id_seq, now, create_answers>>

\* A write that takes the None of repo.update for its record.
Disappeared_ignored(r) == FALSE

\* if updated is None: the record went away between the read and the write.
Disappeared(r) == r.raised = "" /\ r.job = None

\* JobService.update_job from the immutable-field guard to its return.
UpdateJobWrite(s, fault) ==
    LET this == sess[s]
        existing == Val(this.existing)
        immutable_fault == ImmutableFault(existing, this.payload)
        stripped == StripImmutable(this.payload)
        date_fault ==
            IF "posted_date" \in DOMAIN stripped
            THEN _validate_posted_date(stripped["posted_date"], Today)
            ELSE None
        update_data ==
            IF "url" \in DOMAIN stripped
            THEN [stripped EXCEPT !["url"] = Some(StrUrl(@))]
            ELSE stripped
        url_fault ==
            IF "url" \in DOMAIN stripped
            THEN _validate_url_for_platform(Val(update_data["url"]), Val(existing.platform))
            ELSE None
        growth_fault == _validate_description_growth(existing, update_data)
        r == RepoUpdate(jobs, this.job_id, update_data, this.existing, now, fault)
        Ends(repo_calls, result) ==
            Finished(s, "update_job", this.job_id, this.payload, this.existing,
                this.repo_calls \o repo_calls, result)
    IN
    /\ this.pc = "fetched"
    /\ this.op = "update_job"
    /\ IF immutable_fault # None
       THEN Ends(<<>>, WriteFault(Val(immutable_fault))) /\ UNCHANGED jobs
       ELSE IF DOMAIN stripped = {}
       THEN Ends(<<>>, Ok(200, this.existing)) /\ UNCHANGED jobs
       ELSE IF date_fault # None
       THEN Ends(<<>>, WriteFault(Val(date_fault))) /\ UNCHANGED jobs
       ELSE IF url_fault # None
       THEN Ends(<<>>, WriteFault(Val(url_fault))) /\ UNCHANGED jobs
       ELSE IF growth_fault # None
       THEN Ends(<<>>, WriteFault(Val(growth_fault))) /\ UNCHANGED jobs
       ELSE /\ jobs' = r.jobs
            /\ Ends(<<RepoCall("update", update_data, r, fault)>>,
                    CASE r.raised = "DuplicateJobError" -> WriteFault(MsgMustRemainUnique)
                      [] r.raised \in {"RepositoryError", "ValueError"} ->
                            WriteFault(MsgUpdateFailed(r.message))
                      [] r.raised \notin {"", "DuplicateJobError", "RepositoryError",
                                          "ValueError"} ->
                            Unhandled(r.raised, r.message)
                      [] Disappeared(r) -> NotFound
                      [] OTHER -> Ok(200, r.job))
    /\ UNCHANGED <<jobs_id_seq, now, calls, create_answers>>

\* JobService.delete_job behind DELETE /jobs/{id}, up to the result of
\* repo.get_by_id.
DeleteJobRead(s, job_id, fault) ==
    LET r == RepoGetById(jobs, job_id, fault)
        repo_calls == <<RepoCall("get_by_id", EmptyMap, r, fault)>>
    IN
    /\ Begins(s)
    /\ IF r.raised = "RepositoryError"
       THEN Finished(s, "delete_job", job_id, EmptyMap, None, repo_calls,
                PlainFault(MsgDeleteJobFailed))
       ELSE IF r.raised # ""
       THEN Finished(s, "delete_job", job_id, EmptyMap, None, repo_calls,
                Unhandled(r.raised, r.message))
       ELSE IF r.job = None
       THEN Finished(s, "delete_job", job_id, EmptyMap, None, repo_calls, NotFound)
       ELSE Fetched(s, "delete_job", job_id, EmptyMap, r.job, repo_calls)
    /\ UNCHANGED <<jobs, jobs_id_seq, now, create_answers>>

\* delete_job without its early return.
AlreadyInactive_never(existing) == FALSE

\* if existing.is_active is False
AlreadyInactive(existing) == existing.is_active = Some(FALSE)

\* The field map delete_job hands to repo.update.
SoftDeleteData == ("is_active" :> Some(FALSE))

\* delete_job calling repo.delete.
SoftDelete_hard(table, job_id, loaded, clock, fault) ==
    [RepoDelete(table, job_id, fault) EXCEPT !.job = IF @ = Some(TRUE) THEN @ ELSE None]

\* The repository call of delete_job: self.repo.update(job_id, {"is_active": False})
SoftDelete(table, job_id, loaded, clock, fault) ==
    RepoUpdate(table, job_id, SoftDeleteData, loaded, clock, fault)

\* JobService.delete_job from the is_active test to its return.
DeleteJobWrite(s, fault) ==
    LET this == sess[s]
        existing == Val(this.existing)
        update_data == SoftDeleteData
        r == SoftDelete(jobs, this.job_id, this.existing, now, fault)
        Ends(repo_calls, result) ==
            Finished(s, "delete_job", this.job_id, this.payload, this.existing,
                this.repo_calls \o repo_calls, result)
    IN
    /\ this.pc = "fetched"
    /\ this.op = "delete_job"
    /\ IF AlreadyInactive(existing)
       THEN Ends(<<>>, Ok(204, None)) /\ UNCHANGED jobs
       ELSE /\ jobs' = r.jobs
            /\ Ends(<<RepoCall("update", update_data, r, fault)>>,
                    CASE r.raised \in {"RepositoryError", "DuplicateJobError", "ValueError"} ->
                            PlainFault(MsgDeleteFailed(r.message))
                      [] r.raised \notin {"", "RepositoryError", "DuplicateJobError",
                                          "ValueError"} ->
                            Unhandled(r.raised, r.message)
                      [] Disappeared(r) -> NotFound
                      [] OTHER -> Ok(204, None))
    /\ UNCHANGED <<jobs_id_seq, now, calls, create_answers>>

----------------------------------------------------------------------------
(* The repository called on a session of its own, as its tests call it *)

\* What the caller of the repository receives: the value returned, or the
\* exception with its message.
Received(r) ==
    [kind |-> IF r.raised = "" THEN "ok" ELSE r.raised, detail |-> r.message,
     status |-> 0, body |-> r.job]

Called(s, fn, job_id, data, r, fault) ==
    /\ Begins(s)
    /\ Finished(s, fn, job_id, data, None, <<RepoCall(fn, data, r, fault)>>, Received(r))
    /\ UNCHANGED <<now, create_answers>>

\* await repo.create(job_data)
RepositoryCreate(s, job_data, fault) ==
    LET r == RepoCreate(jobs, jobs_id_seq, job_data, now, fault) IN
    /\ Called(s, "create", 0, job_data, r, fault)
    /\ jobs' = r.jobs
    /\ jobs_id_seq' = r.seq

\* await repo.update(job_id, job_data)
RepositoryUpdate(s, job_id, job_data, fault) ==
    LET r == RepoUpdate(jobs, job_id, job_data, None, now, fault) IN
    /\ Called(s, "update", job_id, job_data, r, fault)
    /\ jobs' = r.jobs
    /\ UNCHANGED jobs_id_seq

\* await repo.delete(job_id)
RepositoryDelete(s, job_id, fault) ==
    LET r == RepoDelete(jobs, job_id, fault) IN
    /\ Called(s, "delete", job_id, EmptyMap, r, fault)
    /\ jobs' = r.jobs
    /\ UNCHANGED jobs_id_seq

\* await repo.get_by_id(job_id)
RepositoryGetById(s, job_id, fault) ==
    LET r == RepoGetById(jobs, job_id, fault) IN
    /\ Called(s, "get_by_id", job_id, EmptyMap, r, fault)
    /\ UNCHANGED <<jobs, jobs_id_seq>>

\* await repo.get_all(skip, limit, platform, is_active)
RepositoryGetAll(s, query, fault) ==
    LET r == RepoGetAll(jobs, query.skip, query.limit, query.platform, query.is_active, fault)
    IN
    /\ Called(s, "get_all", 0, query, r, fault)
    /\ UNCHANGED <<jobs, jobs_id_seq>>

\* await repo.get_by_external_id(external_id, platform)
RepositoryGetByExternalId(s, external_id, platform, fault) ==
    LET r == RepoGetByExternalId(jobs, external_id, platform, fault) IN
    /\ Called(s, "get_by_external_id", 0,
            [external_id |-> external_id, platform |-> platform], r, fault)
    /\ UNCHANGED <<jobs, jobs_id_seq>>

----------------------------------------------------------------------------
(* Health checks (core/health.py, api/v1/health.py) *)

Dependencies == {"database", "redis"}

\* The error class the probe of a dependency catches next to the timeout.
ClientError(dependency) ==
    IF dependency = "database" THEN "SQLAlchemyError" ELSE "RedisError"

\* How the ping of a dependency ends under asyncio.wait_for: "" when it
\* returns, else the exception: the timeout, the error class of the client,
\* or another exception (OSError, as of a refused connection).
PingOutcomes(dependency) == {"", "TimeoutError", ClientError(dependency), "OSError"}

\* What a probe hands to asyncio.gather: a status with its error text, or
\* the exception that leaves the probe.
Healthy == [status |-> "healthy", error |-> None, raised |-> ""]

Unhealthy(error) == [status |-> "unhealthy", error |-> Some(error), raised |-> ""]

ProbeRaised(kind) == [status |-> "", error |-> None, raised |-> kind]

\* HealthService._check_database
_check_database(ping) ==
    CASE ping = "" -> Healthy
      [] ping = "TimeoutError" -> Unhealthy("timeout after")
      [] ping = "SQLAlchemyError" -> Unhealthy(ping)
      [] OTHER -> ProbeRaised(ping)

\* HealthService._check_redis
_check_redis(ping) ==
    CASE ping = "" -> Healthy
      [] ping = "TimeoutError" -> Unhealthy("timeout after")
      [] ping = "RedisError" -> Unhealthy(ping)
      [] OTHER -> ProbeRaised(ping)

Probe(dependency, ping) ==
    IF dependency = "database" THEN _check_database(ping) ELSE _check_redis(ping)

\* HealthService._check_api
_check_api == [status |-> "healthy", error |-> None, raised |-> ""]

\* An aggregate that looks at the database alone.
overall_status_database_only(database_status, redis_status, api_status) ==
    IF database_status.status = "healthy" THEN "healthy" ELSE "unhealthy"

\* get_health_payload: overall_status
overall_status(database_status, redis_status, api_status) ==
    IF /\ database_status.status = "healthy"
       /\ redis_status.status = "healthy"
       /\ api_status.status = "healthy"
    THEN "healthy"
    ELSE "unhealthy"

\* The dictionary get_health_payload returns.
HealthPayload(database_status, redis_status) ==
    [status |-> overall_status(database_status, redis_status, _check_api),
     services |-> [database |-> database_status, redis |-> redis_status,
                   api |-> _check_api],
     error |-> None]

\* The dictionary the route returns when get_health_payload raised.
HealthFailedPayload ==
    [status |-> "unhealthy", services |-> EmptyMap,
     error |-> Some("health check execution failed")]

\* api/v1/health.py health_check: 503 when the payload says unhealthy.
HealthAnswer(payload) ==
    Ok(IF payload.status = "unhealthy" THEN 503 ELSE 200, Some(payload))

\* GET /health: the two probes are started; `existing` holds what each
\* probe has handed to gather so far, `payload` how its ping ended.
HealthCheck(s) ==
    /\ Begins(s)
    /\ sess' = [sess EXCEPT ![s] =
                [pc |-> "probing", op |-> "health", job_id |-> 0, payload |-> EmptyMap,
                 existing |-> Some(EmptyMap), repo_calls |-> <<>>, result |-> None]]
    /\ UNCHANGED <<jobs, jobs_id_seq, now, create_answers>>

\* The probe of one dependency ends while the other may still be running.
ProbeEnds(s, dependency, ping) ==
    /\ sess[s].pc = "probing"
    /\ dependency \notin DOMAIN sess[s].payload
    /\ sess' = [sess EXCEPT
                  ![s].payload = (dependency :> ping) @@ @,
                  ![s].existing = Some((dependency :> Probe(dependency, ping)) @@ Val(@))]
    /\ UNCHANGED <<jobs, jobs_id_seq, now, calls, create_answers>>

\* asyncio.gather returns when both probes have returned and raises as soon
\* as one probe has raised; the route answers.
Gathered(s) ==
    LET statuses == Val(sess[s].existing)
        raised == \E d \in DOMAIN statuses : statuses[d].raised # ""
    IN
    /\ sess[s].pc = "probing"
    /\ raised \/ DOMAIN statuses = Dependencies
    /\ sess' = [sess EXCEPT
                  ![s].pc = "done",
                  ![s].result =
                        Some(IF raised
                             THEN [HealthAnswer(HealthFailedPayload) EXCEPT
                                        !.detail = <<"Health endpoint failed">>]
                             ELSE HealthAnswer(HealthPayload(statuses["database"],
                                                             statuses["redis"])))]
    /\ UNCHANGED <<jobs, jobs_id_seq, now, calls, create_answers>>

----------------------------------------------------------------------------
(* The session of a request (api/deps.py, db/session.py) *)

\* Depends(get_db_session) entered: AsyncSessionLocal() has made session
\* `id`, get_session_dependency is suspended at its yield inside
\* `async with get_session()`, and get_db_session at its yield inside
\* `async for session in get_session_dependency()`.
DbDependency(id) ==
    [session |-> id, get_db_session |-> "suspended",
     get_session_dependency |-> "suspended", open |-> TRUE]

\* How the route of a request ends: it returns, it raises HTTPException for
\* a not-found or business fault, or an exception of another kind leaves it.
RouteOutcomes ==
    {Ok(200, None), NotFound, PlainFault(MsgFetchJobFailed), Unhandled("Exception", <<>>)}

\* The exit of the dependency. Without an exception get_db_session is
\* resumed: its loop asks get_session_dependency for the next item, which
\* leaves `async with` and closes the session. With an exception, the
\* exception is thrown into get_db_session at its yield and leaves the loop:
\* get_session_dependency is not resumed.
Exited(dependency, raised) ==
    IF raised
    THEN [dependency EXCEPT !.get_db_session = "finished"]
    ELSE [dependency EXCEPT !.get_db_session = "finished",
                            !.get_session_dependency = "finished",
                            !.open = FALSE]

\* A request with Depends(get_job_service) arrives and its session is made.
RequestBegins(s) ==
    /\ Begins(s)
    /\ sess' = [sess EXCEPT ![s] =
                [pc |-> "running", op |-> "request", job_id |-> 0, payload |-> EmptyMap,
                 existing |-> Some(DbDependency(calls + 1)), repo_calls |-> <<>>,
                 result |-> None]]
    /\ UNCHANGED <<jobs, jobs_id_seq, now, create_answers>>

\* The route function ends.
RouteEnds(s, outcome) ==
    /\ sess[s].pc = "running"
    /\ sess' = [sess EXCEPT ![s].pc = "answered", ![s].result = Some(outcome)]
    /\ UNCHANGED <<jobs, jobs_id_seq, now, calls, create_answers>>

\* The framework exits the dependencies of the request; the request is over.
RequestEnds(s) ==
    /\ sess[s].pc = "answered"
    /\ sess' = [sess EXCEPT
                  ![s].pc = "done",
                  ![s].existing =
                        Some(Exited(Val(@), Val(sess[s].result).kind # "ok"))]
    /\ UNCHANGED <<jobs, jobs_id_seq, now, calls, create_answers>>

\* The event loop finalizes a get_session_dependency that was left
\* suspended and is no longer referenced: aclose() leaves its `async with`
\* and closes the session.
AsyncGenFinalized(s) ==
    /\ sess[s].op = "request"
    /\ Val(sess[s].existing).get_db_session = "finished"
    /\ Val(sess[s].existing).get_session_dependency = "suspended"
    /\ sess' = [sess EXCEPT
                  ![s].existing =
                        Some([Val(@) EXCEPT !.get_session_dependency = "finished",
                                            !.open = FALSE])]
    /\ UNCHANGED <<jobs, jobs_id_seq, now, calls, create_answers>>

----------------------------------------------------------------------------
(* The repository on a session kept over several calls (db/session.py,
   repositories/job.py) *)

\* What a session holds of a record it loaded: the column values it read and
\* the attributes set on the entity since, which the next flush writes.
Held(loaded, pending) == [loaded |-> loaded, pending |-> pending]

\* async with get_session() as db: the identity map of the session is empty.
NothingHeld == [i \in {} |-> Held(EmptyMap, EmptyMap)]

\* The two tests of the loop of update on one field, then setattr with the
\* validates hook of the model: the message of the ValueError, <<>> when the
\* field is set.
FieldRefused(field, value) ==
    IF field \in PROTECTED_UPDATE_FIELDS THEN MsgProtectedUpdate(field)
    ELSE IF field \notin ColumnNames THEN MsgUnknownField(field)
    ELSE IF field = "platform" /\ ~validate_platform(value)
    THEN MsgModelInvalidPlatform(value)
    ELSE <<>>

\* for field, value in job_data.items(): the position at which the loop
\* raises, 0 when it ends.
FirstRefused(fields) ==
    LET refused == {i \in 1..Len(fields) : FieldRefused(fields[i][1], fields[i][2]) # <<>>}
    IN IF refused = {} THEN 0 ELSE CHOOSE i \in refused : \A j \in refused : i <= j

\* setattr(job, field, value) for the first n fields of the map.
RECURSIVE SetAttrs(_, _, _)
SetAttrs(pending, fields, n) ==
    IF n = 0 THEN pending
    ELSE (fields[n][1] :> fields[n][2]) @@ SetAttrs(pending, fields, n - 1)

\* The field map as a mapping.
AsMap(fields) == SetAttrs(EmptyMap, fields, Len(fields))

\* The flush of a commit: an UPDATE for every entity the session holds with
\* attributes set.
SessionFlush(table, held, clock) ==
    [i \in DOMAIN table |->
        IF i \in DOMAIN held
        THEN Updated(table[i], held[i].loaded, held[i].pending, clock)
        ELSE table[i]]

\* The entities whose UPDATE finds no row.
Stale(table, held) ==
    {i \in DOMAIN held \ DOMAIN table : NetChanges(held[i].loaded, held[i].pending) # {}}

\* self.db.commit() of a call: the flush of what the session holds, with the
\* rows the call adds, on the table left by the rows it deletes.
SessionCommit(op, table, held, added, clock) ==
    LET flushed == added @@ SessionFlush(table, held, clock)
        null == {i \in DOMAIN flushed : ~NotNullOk(flushed[i])}
        twice == {i \in DOMAIN flushed : ~uq_jobs_external_id_platform(flushed, flushed[i])}
    IN
    IF Stale(table, held) # {}
    THEN WriteFailed("RepositoryError", MsgWriteFailed(op), table, "commit", "", NoFault)
    ELSE IF null # {}
    THEN IntegrityFailed(op, NotNullViolationText(flushed[CHOOSE i \in null : TRUE]),
            "not-null", table, NoFault)
    ELSE IF twice # {}
    THEN IntegrityFailed(op, UniqueViolationText, "uq_jobs_external_id_platform",
            table, NoFault)
    ELSE Returned(flushed, None)

\* After a commit (expire_on_commit=False) the entities keep their
\* attributes, now clean; the entity of the call is refreshed from its row.
Committed(held, table, refreshed) ==
    [i \in (DOMAIN held \cup refreshed) \cap DOMAIN table |->
        IF i \in refreshed
        THEN Held(table[i], EmptyMap)
        ELSE Held([c \in DOMAIN held[i].loaded |->
                      IF c \in DOMAIN held[i].pending THEN held[i].pending[c]
                      ELSE held[i].loaded[c]],
                  EmptyMap)]

\* What the session holds when a call ends: after a rollback every entity
\* is expired, else what the call left.
HeldAfter(r, left) == IF r.rolled_back THEN NothingHeld ELSE left

\* The call of a repository method on the session has ended.
SessionCalled(s, fn, job_id, data, r, held) ==
    /\ sess[s].pc = "open"
    /\ calls < MaxCalls
    /\ calls' = calls + 1
    /\ sess' = [sess EXCEPT ![s] =
                    [pc |-> "open", op |-> fn, job_id |-> job_id, payload |-> data,
                     existing |-> Some(HeldAfter(r, held)),
                     repo_calls |-> <<RepoCall(fn, data, r, NoFault)>>,
                     result |-> Some(Received(r))]]
    /\ jobs' = r.jobs
    /\ UNCHANGED <<now, create_answers>>

\* async with get_session() as db: repo = JobRepository(db)
SessionOpens(s) ==
    /\ sess[s].pc = "idle"
    /\ calls < MaxCalls
    /\ sess' = [sess EXCEPT ![s] =
                    [Idle EXCEPT !.pc = "open", !.op = "session",
                                 !.existing = Some(NothingHeld)]]
    /\ UNCHANGED <<jobs, jobs_id_seq, now, calls, create_answers>>

\* The end of the async with: the session is closed and what it holds is
\* discarded.
SessionCloses(s) ==
    /\ sess[s].pc = "open"
    /\ sess[s].op # "session"
    /\ sess' = [sess EXCEPT ![s] = Idle]
    /\ UNCHANGED <<jobs, jobs_id_seq, now, calls, create_answers>>

\* await repo.create(job_data) on the session.
SessionCreate(s, job_data) ==
    LET held == Val(sess[s].existing)
        id == jobs_id_seq + 1
        row == NewJob(id, job_data, now)
        blocked == PROTECTED_CREATE_FIELDS \cap DOMAIN job_data
        r == IF blocked # {}
             THEN Invalid(MsgProtectedCreate(blocked), jobs)
             ELSE IF "platform" \in DOMAIN job_data /\ ~validate_platform(job_data["platform"])
             THEN Invalid(MsgModelInvalidPlatform(job_data["platform"]), jobs)
             ELSE [SessionCommit("create", jobs, held, id :> row, now)
                     EXCEPT !.job = IF @ = None THEN Some(row) ELSE @]
        flushed == r.raised = "" \/ r.constraint # ""
    IN
    /\ SessionCalled(s, "create", 0, job_data,
            IF r.raised = "" THEN r ELSE [r EXCEPT !.job = None],
            IF r.raised = "" THEN Committed(held, r.jobs, {id}) ELSE held)
    /\ jobs_id_seq' = IF flushed THEN id ELSE jobs_id_seq

\* await repo.update(job_id, job_data) on the session, job_data given in the
\* order of its keys.
SessionUpdate(s, job_id, fields) ==
    LET held == Val(sess[s].existing)
        entry == IF job_id \in DOMAIN held THEN held[job_id]
                 ELSE Held(jobs[job_id], EmptyMap)
        refused == FirstRefused(fields)
        applied == IF refused = 0 THEN Len(fields) ELSE refused - 1
        dirty == (job_id :> Held(entry.loaded, SetAttrs(entry.pending, fields, applied)))
                 @@ held
        committed == SessionCommit("update", jobs, dirty, EmptyMap, now)
        r == IF job_id \notin DOMAIN jobs
             THEN Returned(jobs, None)
             ELSE IF refused # 0
             THEN Invalid(FieldRefused(fields[refused][1], fields[refused][2]), jobs)
             ELSE IF committed.raised = ""
             THEN [committed EXCEPT !.job = Some(committed.jobs[job_id])]
             ELSE committed
    IN
    /\ SessionCalled(s, "update", job_id, AsMap(fields), r,
            IF job_id \notin DOMAIN jobs THEN held
            ELSE IF refused # 0 THEN dirty
            ELSE Committed(dirty, r.jobs, {job_id}))
    /\ UNCHANGED jobs_id_seq

\* await repo.delete(job_id) on the session.
SessionDelete(s, job_id) ==
    LET held == Val(sess[s].existing)
        others == Restrict(held, DOMAIN held \ {job_id})
        left == Restrict(jobs, DOMAIN jobs \ {job_id})
        committed == SessionCommit("delete", left, others, EmptyMap, now)
        r == IF job_id \notin DOMAIN jobs
             THEN Returned(jobs, Some(FALSE))
             ELSE IF committed.raised = ""
             THEN [committed EXCEPT !.job = Some(TRUE)]
             ELSE [committed EXCEPT !.jobs = jobs]
    IN
    /\ SessionCalled(s, "delete", job_id, EmptyMap, r,
            IF job_id \notin DOMAIN jobs THEN held
            ELSE Committed(others, r.jobs, {}))
    /\ UNCHANGED jobs_id_seq

\* The records created and the field maps of the updates on a kept session:
\* a valid map, and maps in which a protected field, an unknown field or a
\* platform the model refuses comes after, or before, a valid field.
PendingCreates ==
    {Required("j1", "linkedin", UrlLinkedin), Required("j2", "linkedin", UrlLinkedin),
     Required("j1", "linkedin", UrlLinkedin) @@ ("id" :> Some(99))}

PendingUpdates ==
    {<< <<"title", Some("Senior Engineer")>> >>,
     << <<"created_at", Some(0)>> >>,
     << <<"title", Some("Senior Engineer")>>, <<"created_at", Some(0)>> >>,
     << <<"created_at", Some(0)>>, <<"title", Some("Senior Engineer")>> >>,
     << <<"is_active", Some(FALSE)>>, <<"not_a_column", Some("bad")>> >>,
     << <<"title", Some("Staff Engineer")>>, <<"platform", Some("monster")>> >>}

----------------------------------------------------------------------------
(* Specifications *)

NextOver(creates, updates) ==
    \/ Tick
    \/ \E s \in Sessions, payload \in creates : CreateJob(s, payload, NoFault, MetricRecorded)
    \/ \E s \in Sessions, job_id \in JobIds : GetJob(s, job_id, NoFault)
    \/ \E s \in Sessions, job_id \in JobIds, payload \in updates :
            UpdateJobRead(s, job_id, payload, NoFault)
    \/ \E s \in Sessions : UpdateJobWrite(s, NoFault)
    \/ \E s \in Sessions, job_id \in JobIds : DeleteJobRead(s, job_id, NoFault)
    \/ \E s \in Sessions : DeleteJobWrite(s, NoFault)
    \/ \E s \in Sessions : Return(s)

Next == NextOver(IdentityCreates, IdentityUpdates)

NextDescriptions == NextOver(DescriptionCreates, DescriptionUpdates)

NextDates == NextOver(DateCreates, DateUpdates)

\* The requests of the listing: records of two platforms, active and not.
ListingCreates ==
    {Required(e, "linkedin", UrlLinkedin) : e \in ExternalIds}
    \cup {Required("j1", "seek", UrlSeek), Required("j1", "monster", UrlLinkedin),
          Required("j1", "monster", UrlLinkedin) @@ ("posted_date" :> Some(MaxNow + 1))}

ListingUpdates == {("is_active" :> Some(TRUE)), ("title" :> Some("Senior Engineer"))}

ListQueries ==
    {ListQuery(skip, limit, platform, is_active) :
        skip \in {0, 1}, limit \in {1, 2},
        platform \in {None, Some("linkedin"), Some("seek"), Some("monster")},
        is_active \in BOOLEAN}
    \cup {ListQuery(-1, 1, None, TRUE), ListQuery(0, 0, None, TRUE),
          ListQuery(0, MaxLimit + 1, None, TRUE)}

NextListing ==
    \/ NextOver(ListingCreates, ListingUpdates)
    \/ \E s \in Sessions, query \in ListQueries : ListJobs(s, query, NoFault)

\* The requests and the repository calls made while the storage engine may
\* fail.
FaultCreates ==
    {Required("j1", "linkedin", UrlLinkedin),
     Required("j1", PlatformAlreadyExists, UrlLinkedin)}

FaultUpdates == {("title" :> Some("Senior Engineer")), ("title" :> None), EmptyMap,
                 ("posted_date" :> Some(MaxNow + 1))}

FaultQueries == {ListQuery(0, 2, None, TRUE), ListQuery(0, 2, Some("monster"), TRUE)}

RepoCreates ==
    {Required(e, "linkedin", UrlLinkedin) : e \in ExternalIds}
    \cup {[Required("j1", "linkedin", UrlLinkedin) EXCEPT !["title"] = None],
          [Required("j1", "linkedin", UrlLinkedin) EXCEPT !["title"] = Some(TitleDba),
                                                          !["url"] = None],
          Required("j1", "monster", UrlLinkedin),
          Required("j1", "linkedin", UrlLinkedin) @@ ("id" :> Some(99)),
          Required("j1", "linkedin", UrlLinkedin) @@ ("created_at" :> Some(0))}

RepoUpdates ==
    {("title" :> Some("Senior Engineer")), ("title" :> None),
     ("title" :> Some(TitleDba)) @@ ("url" :> None),
     ("external_id" :> Some("j1")), ("platform" :> Some("monster")),
     ("created_at" :> Some(0)), ("not_a_column" :> Some("bad")),
     ("id" :> Some(99)), ("updated_at" :> Some(0)), ("_hidden" :> Some("bad")),
     ("title" :> Some("Senior Engineer")) @@ ("created_at" :> Some(0))}

NextFaults ==
    \/ \E s \in Sessions, payload \in FaultCreates, fault \in StorageFaults,
          metric \in MetricOutcomes :
            CreateJob(s, payload, fault, metric)
    \/ \E s \in Sessions, job_id \in JobIds, fault \in StorageFaults : GetJob(s, job_id, fault)
    \/ \E s \in Sessions, query \in FaultQueries, fault \in StorageFaults :
            ListJobs(s, query, fault)
    \/ \E s \in Sessions, job_id \in JobIds, payload \in FaultUpdates, fault \in StorageFaults :
            UpdateJobRead(s, job_id, payload, fault)
    \/ \E s \in Sessions, fault \in StorageFaults : UpdateJobWrite(s, fault)
    \/ \E s \in Sessions, job_id \in JobIds, fault \in StorageFaults :
            DeleteJobRead(s, job_id, fault)
    \/ \E s \in Sessions, fault \in StorageFaults : DeleteJobWrite(s, fault)
    \/ \E s \in Sessions, job_data \in RepoCreates, fault \in StorageFaults :
            RepositoryCreate(s, job_data, fault)
    \/ \E s \in Sessions, job_id \in JobIds, job_data \in RepoUpdates, fault \in StorageFaults :
            RepositoryUpdate(s, job_id, job_data, fault)
    \/ \E s \in Sessions, job_id \in JobIds, fault \in StorageFaults :
            RepositoryDelete(s, job_id, fault)
    \/ \E s \in Sessions, job_id \in JobIds, fault \in StorageFaults :
            RepositoryGetById(s, job_id, fault)
    \/ \E s \in Sessions, query \in FaultQueries, fault \in StorageFaults :
            RepositoryGetAll(s, query, fault)
    \/ \E s \in Sessions, e \in ExternalIds, p \in {"linkedin", "seek"}, fault \in StorageFaults :
            RepositoryGetByExternalId(s, e, p, fault)
    \/ \E s \in Sessions : Return(s)

NextHealth ==
    \/ \E s \in Sessions : HealthCheck(s)
    \/ \E s \in Sessions, dependency \in Dependencies :
            \E ping \in PingOutcomes(dependency) : ProbeEnds(s, dependency, ping)
    \/ \E s \in Sessions : Gathered(s)
    \/ \E s \in Sessions : Return(s)

NextSessions ==
    \/ \E s \in Sessions : RequestBegins(s)
    \/ \E s \in Sessions, outcome \in RouteOutcomes : RouteEnds(s, outcome)
    \/ \E s \in Sessions : RequestEnds(s)
    \/ \E s \in Sessions : AsyncGenFinalized(s)
    \/ \E s \in Sessions : Return(s)

NextPending ==
    \/ \E s \in Sessions : SessionOpens(s)
    \/ \E s \in Sessions, job_data \in PendingCreates : SessionCreate(s, job_data)
    \/ \E s \in Sessions, job_id \in JobIds, fields \in PendingUpdates :
            SessionUpdate(s, job_id, fields)
    \/ \E s \in Sessions, job_id \in JobIds : SessionDelete(s, job_id)
    \/ \E s \in Sessions : SessionCloses(s)

\* Requests on the provenance pair, the url, the title and the flag.
Spec == Init /\ [][Next]_vars

\* Requests on the descriptions.
SpecDescriptions == Init /\ [][NextDescriptions]_vars

\* Requests on posted_date.
SpecDates == Init /\ [][NextDates]_vars

\* Requests that list, next to those that create, update and delete.
SpecListing == Init /\ [][NextListing]_vars

\* Requests and repository calls under failures of the storage engine.
SpecFaults == Init /\ [][NextFaults]_vars

\* Health checks with every way the two pings may end.
SpecHealth == Init /\ [][NextHealth]_vars

\* Requests with their database sessions.
SpecSessions == Init /\ [][NextSessions]_vars

\* Repository calls on sessions kept over several calls.
SpecPending == Init /\ [][NextPending]_vars

----------------------------------------------------------------------------
(* Properties *)

Done(s, op) == sess[s].pc = "done" /\ sess[s].op = op

Result(s) == Val(sess[s].result)

RowsOf(pair) ==
    {i \in DOMAIN jobs : jobs[i].external_id = Some(pair[1]) /\ jobs[i].platform = Some(pair[2])}

\* C1: in every reachable state no two stored Job records, active or
\* inactive, have the same (external_id, platform) pair.
C1_UniquePair ==
    \A i, j \in DOMAIN jobs :
        i # j => ~(jobs[i].external_id = jobs[j].external_id
                   /\ jobs[i].platform = jobs[j].platform)

\* Two records share an external_id on different platforms and a create of a
\* stored pair has just been refused.
C1_Witness ==
    /\ \E i, j \in DOMAIN jobs : i # j /\ jobs[i].external_id = jobs[j].external_id
    /\ \E s \in Sessions :
        /\ Done(s, "create_job")
        /\ Result(s).status = 409
        /\ \E i \in DOMAIN jobs :
            /\ jobs[i].external_id = sess[s].payload["external_id"]
            /\ jobs[i].platform = sess[s].payload["platform"]

\* C2: of the creates that carry one (external_id, platform) pair and are
\* otherwise valid, the first to reach the table is answered 201 and stores
\* the record, every later one is answered 409 with the business fault
\* "already exists", and exactly one record with the pair is stored.
C2_OneCreateWins ==
    /\ \A pair \in DOMAIN create_answers :
        LET answers == create_answers[pair] IN
        Len(answers) >= 1 =>
            /\ answers[1] = 201
            /\ \A k \in 2..Len(answers) : answers[k] = 409
            /\ Cardinality(RowsOf(pair)) = 1
    /\ \A s \in Sessions :
        Done(s, "create_job") /\ Result(s).status = 409 =>
            /\ Result(s).kind = "BusinessLogicError"
            /\ Result(s).detail = MsgAlreadyExists
            /\ Result(s).body = None

\* Two creates carried one pair: 201 then 409.
C2_Witness == \E pair \in DOMAIN create_answers : create_answers[pair] = <<201, 409>>

\* Session s ends request op in this step.
Completes(s, op) == sess[s].pc # "done" /\ sess'[s].pc = "done" /\ sess'[s].op = op

\* The write step of a request that had read its record ends it in this step.
Writes(s, op) == sess[s].pc = "fetched" /\ Completes(s, op)

NoWriteCall(repo_calls) ==
    \A k \in 1..Len(repo_calls) : repo_calls[k].fn \notin {"create", "update", "delete"}

\* C3: over every step of any interleaving, every record keeps the external_id
\* and platform it was created with, and no repo.update issued by update_job
\* carries external_id or platform.
C3_PairImmutable ==
    [][/\ \A i \in DOMAIN jobs :
            i \in DOMAIN jobs' =>
                /\ jobs'[i].external_id = jobs[i].external_id
                /\ jobs'[i].platform = jobs[i].platform
       /\ \A s \in Sessions :
            sess'[s].op = "update_job" =>
                \A k \in 1..Len(sess'[s].repo_calls) :
                    sess'[s].repo_calls[k].fn = "update" =>
                        DOMAIN sess'[s].repo_calls[k].data
                            \cap {"external_id", "platform"} = {}
      ]_vars

\* An update that named the stored external_id next to a new title was
\* written.
C3_Witness ==
    \E s \in Sessions :
        /\ Done(s, "update_job")
        /\ DOMAIN sess[s].payload = {"external_id", "title"}
        /\ Result(s).status = 200
        /\ ~NoWriteCall(sess[s].repo_calls)
        /\ jobs[sess[s].job_id].title = Some("Senior Engineer")
        /\ jobs[sess[s].job_id].external_id = sess[s].payload["external_id"]

ChangesPair(existing, payload) ==
    \/ "external_id" \in DOMAIN payload /\ payload["external_id"] # existing.external_id
    \/ "platform" \in DOMAIN payload /\ payload["platform"] # existing.platform

OnlySamePair(existing, payload) ==
    /\ DOMAIN payload # {}
    /\ DOMAIN payload \subseteq {"external_id", "platform"}
    /\ ~ChangesPair(existing, payload)

\* C4: update_job on an existing record with a payload whose external_id or
\* platform differs from the stored value ends in the business fault "cannot
\* be changed after creation" and stores nothing; a payload of only
\* external_id and/or platform equal to the stored values returns the
\* existing record and issues no repo.update.
C4_ImmutableGuard ==
    [][\A s \in Sessions :
        Writes(s, "update_job") =>
            LET existing == Val(sess[s].existing)
                payload == sess[s].payload
                result == Val(sess'[s].result)
            IN
            /\ ChangesPair(existing, payload) =>
                /\ result.kind = "BusinessLogicError"
                /\ result.detail \in {MsgExternalIdImmutable, MsgPlatformImmutable}
                /\ result.status = 400
                /\ NoWriteCall(sess'[s].repo_calls)
                /\ jobs' = jobs
            /\ OnlySamePair(existing, payload) =>
                /\ result = Ok(200, sess[s].existing)
                /\ NoWriteCall(sess'[s].repo_calls)
                /\ jobs' = jobs
      ]_vars

\* One update was refused for naming another platform, and one that named
\* only the stored pair got the record back.
C4_Witness ==
    /\ \E s \in Sessions :
        /\ Done(s, "update_job")
        /\ sess[s].existing # None
        /\ "platform" \in DOMAIN sess[s].payload
        /\ sess[s].payload["platform"] # Val(sess[s].existing).platform
        /\ Result(s).detail = MsgPlatformImmutable
    /\ \E s \in Sessions :
        /\ Done(s, "update_job")
        /\ sess[s].existing # None
        /\ OnlySamePair(Val(sess[s].existing), sess[s].payload)
        /\ Result(s).status = 200

\* C5: no step of any service operation removes a stored record.
C5_NeverRemoved ==
    [][\A i \in DOMAIN jobs : i \in DOMAIN jobs']_vars

\* delete_job has succeeded and its record is still stored, inactive.
C5_Witness ==
    \E s \in Sessions :
        /\ Done(s, "delete_job")
        /\ Result(s).status = 204
        /\ sess[s].job_id \in DOMAIN jobs
        /\ jobs[sess[s].job_id].is_active = Some(FALSE)

\* C6: delete_job on a record it reads as inactive returns success, issues no
\* repo.update and leaves the table, updated_at included, as it was.
C6_DeleteIdempotent ==
    [][\A s \in Sessions :
        /\ Writes(s, "delete_job")
        /\ Val(sess[s].existing).is_active = Some(FALSE)
        => /\ sess'[s].result = Some(Ok(204, None))
           /\ NoWriteCall(sess'[s].repo_calls)
           /\ jobs' = jobs
      ]_vars

\* A delete of a record that was inactive already has succeeded.
C6_Witness ==
    \E s \in Sessions :
        /\ Done(s, "delete_job")
        /\ sess[s].existing # None
        /\ Val(sess[s].existing).is_active = Some(FALSE)
        /\ Result(s).status = 204
        /\ jobs[sess[s].job_id] = Val(sess[s].existing)

\* C7: a delete_job that succeeds on a record it read as active leaves the
\* record inactive and changes no column of it other than is_active and
\* updated_at, and no other record; a get_job of a stored id succeeds and
\* returns the record as stored, so with is_active false after the delete.
C7_SoftDeleteFrame ==
    [][/\ \A s \in Sessions :
            /\ Writes(s, "delete_job")
            /\ Val(sess[s].existing).is_active # Some(FALSE)
            /\ Val(sess'[s].result).kind = "ok"
            => LET id == sess[s].job_id IN
               /\ DOMAIN jobs' = DOMAIN jobs
               /\ jobs'[id].is_active = Some(FALSE)
               /\ \A c \in DOMAIN jobs[id] \ {"is_active", "updated_at"} :
                    jobs'[id][c] = jobs[id][c]
               /\ \A i \in DOMAIN jobs \ {id} : jobs'[i] = jobs[i]
       /\ \A s \in Sessions :
            Completes(s, "get_job") /\ sess'[s].job_id \in DOMAIN jobs =>
                /\ sess'[s].result = Some(Ok(200, Some(jobs[sess'[s].job_id])))
                /\ jobs' = jobs
      ]_vars

\* A get_job has returned, on a later day than the record was created, a
\* record that a delete left inactive.
C7_Witness ==
    \E s \in Sessions :
        /\ Done(s, "get_job")
        /\ Result(s).status = 200
        /\ Val(Result(s).body).is_active = Some(FALSE)
        /\ Val(Result(s).body).updated_at > Val(Result(s).body).created_at
        /\ Val(Result(s).body).title = Some("Engineer")

\* The payload sets field f to a non-null value no longer than the one read.
NotLonger(existing, payload, f) ==
    /\ f \in DOMAIN payload
    /\ payload[f] # None
    /\ Len(Val(payload[f])) <= (IF existing[f] = None THEN 0 ELSE Len(Val(existing[f])))

FutureDated(payload) ==
    /\ "posted_date" \in DOMAIN payload
    /\ payload["posted_date"] # None
    /\ Val(payload["posted_date"]) > now

\* C9: create_job, and update_job on an existing record, with a posted_date
\* later than today end in a business fault ("posted_date cannot be in the
\* future" unless the payload also changes external_id or platform) before any
\* repository write, leaving the table as it was; every stored posted_date is
\* absent or not after the day the record was last written.
C9_NoFutureDate ==
    [][/\ \A s \in Sessions :
            Completes(s, "create_job") /\ FutureDated(sess'[s].payload) =>
                /\ sess'[s].result = Some(WriteFault(MsgFuture))
                /\ Val(sess'[s].result).status = 400
                /\ sess'[s].repo_calls = <<>>
                /\ jobs' = jobs
                /\ jobs_id_seq' = jobs_id_seq
       /\ \A s \in Sessions :
            Writes(s, "update_job") /\ FutureDated(sess[s].payload) =>
                /\ Val(sess'[s].result).kind = "BusinessLogicError"
                /\ ~ChangesPair(Val(sess[s].existing), sess[s].payload) =>
                    sess'[s].result = Some(WriteFault(MsgFuture))
                /\ NoWriteCall(sess'[s].repo_calls)
                /\ jobs' = jobs
       /\ \A i \in DOMAIN jobs' :
            jobs'[i].posted_date # None =>
                Val(jobs'[i].posted_date) <= jobs'[i].updated_at
      ]_vars

\* An update to a future date was refused on a record whose posted_date had
\* been accepted on the day it names.
C9_Witness ==
    \E s \in Sessions :
        /\ Done(s, "update_job")
        /\ Result(s).detail = MsgFuture
        /\ jobs[sess[s].job_id].posted_date = Some(1)
        /\ sess[s].payload["posted_date"] = Some(2)

\* The hostname equals the domain of the platform or ends with "." and it.
HostOfPlatform(host, platform) ==
    LET domain == PLATFORM_DOMAINS[platform] IN
    \/ host = domain
    \/ /\ Len(host) > Len(domain)
       /\ host[Len(host) - Len(domain)] = "."
       /\ \A k \in 1..Len(domain) : host[Len(host) - Len(domain) + k] = domain[k]

UrlFaults(platform) == {MsgNoHostname, MsgDomainMismatch(platform)}

\* The lower-cased hostname of the url a payload carries.
PayloadHost(payload) == Lower(StrUrl(payload["url"]).netloc)

\* C10: a create_job with an enumerated platform and an update_job that sets
\* url, once past the earlier guards, go on to the repository only if the
\* lower-cased hostname of the url equals the domain of the platform (on update
\* the platform of the stored record) or ends with "." and that domain; with a
\* missing or any other hostname they end in a business fault and store
\* nothing.
C10_UrlDomain ==
    [][/\ \A s \in Sessions :
            /\ Completes(s, "create_job")
            /\ Val(sess'[s].payload["platform"]) \in DOMAIN PLATFORM_DOMAINS
            /\ ~FutureDated(sess'[s].payload)
            => LET platform == Val(sess'[s].payload["platform"])
                   result == Val(sess'[s].result)
               IN
               IF HostOfPlatform(PayloadHost(sess'[s].payload), platform)
               THEN /\ result.detail \notin UrlFaults(platform)
                    /\ sess'[s].repo_calls # <<>>
               ELSE /\ result.kind = "BusinessLogicError"
                    /\ result.detail \in UrlFaults(platform)
                    /\ result.status = 400
                    /\ sess'[s].repo_calls = <<>>
                    /\ jobs' = jobs
       /\ \A s \in Sessions :
            /\ Writes(s, "update_job")
            /\ "url" \in DOMAIN sess[s].payload
            /\ ~ChangesPair(Val(sess[s].existing), sess[s].payload)
            /\ ~FutureDated(sess[s].payload)
            => LET platform == Val(Val(sess[s].existing).platform)
                   result == Val(sess'[s].result)
               IN
               IF HostOfPlatform(PayloadHost(sess[s].payload), platform)
               THEN result.detail \notin UrlFaults(platform)
               ELSE /\ result.kind = "BusinessLogicError"
                    /\ result.detail \in UrlFaults(platform)
                    /\ result.status = 400
                    /\ NoWriteCall(sess'[s].repo_calls)
                    /\ jobs' = jobs
      ]_vars

\* A record was created under a subdomain of its platform's domain, and an
\* update of it to a hostname that merely ends in the domain's letters was
\* refused.
C10_Witness ==
    \E s \in Sessions :
        /\ Done(s, "update_job")
        /\ sess[s].payload = ("url" :> Some(Url(HostNotLinkedin, "/jobs/1")))
        /\ Result(s).detail = MsgDomainMismatch("linkedin")
        /\ jobs[sess[s].job_id].url = Some(Url(HostLinkedinSub, "/jobs/1"))

----------------------------------------------------------------------------
(* Platforms and listing *)

EnumeratedPlatforms == {"linkedin", "seek", "indeed"}

\* C11: a create_job whose platform is none of linkedin, seek and indeed, and
\* a list_jobs whose platform filter is none of them, end in a business fault
\* without a call of the repository, the fault being "Invalid platform" unless
\* the create is refused for its future posted_date first; every stored
\* record's platform is one of the three.
C11_PlatformEnumerated ==
    [][/\ \A s \in Sessions :
            /\ Completes(s, "create_job")
            /\ Val(sess'[s].payload["platform"]) \notin EnumeratedPlatforms
            => /\ Val(sess'[s].result).kind = "BusinessLogicError"
               /\ sess'[s].repo_calls = <<>>
               /\ jobs' = jobs
               /\ jobs_id_seq' = jobs_id_seq
               /\ ~FutureDated(sess'[s].payload) =>
                    Val(sess'[s].result).detail
                        = MsgInvalidPlatform(Val(sess'[s].payload["platform"]))
       /\ \A s \in Sessions :
            /\ Completes(s, "list_jobs")
            /\ sess'[s].payload.platform # None
            /\ Val(sess'[s].payload.platform) \notin EnumeratedPlatforms
            => /\ Val(sess'[s].result).kind = "BusinessLogicError"
               /\ Val(sess'[s].result).detail
                    = MsgInvalidPlatform(Val(sess'[s].payload.platform))
               /\ sess'[s].repo_calls = <<>>
               /\ jobs' = jobs
       /\ \A i \in DOMAIN jobs' :
            /\ jobs'[i].platform # None
            /\ Val(jobs'[i].platform) \in EnumeratedPlatforms
      ]_vars

\* A listing filtered by a platform that is none of the three was refused
\* while records of two platforms were stored.
C11_Witness ==
    /\ \E i, j \in DOMAIN jobs : jobs[i].platform # jobs[j].platform
    /\ \E s \in Sessions :
        /\ Done(s, "list_jobs")
        /\ sess[s].payload.platform = Some("monster")
        /\ Result(s).detail = MsgInvalidPlatform("monster")
        /\ Result(s).status = 400

\* The record passes the filters of the query.
Matches(row, query) ==
    /\ row.is_active = Some(query.is_active)
    /\ query.platform # None => row.platform = query.platform

\* The place of record i among the records passing the filters, by
\* descending id.
RankOf(i, query) ==
    Cardinality({j \in DOMAIN jobs : Matches(jobs[j], query) /\ j >= i})

ValidQuery(query) ==
    /\ query.skip >= 0
    /\ query.limit >= 1
    /\ query.limit <= 1000
    /\ query.platform # None => Val(query.platform) \in EnumeratedPlatforms

\* C12: a list_jobs with skip >= 0, 1 <= limit <= 1000 and no or an
\* enumerated platform filter succeeds and returns the records passing the
\* filters by strictly descending id, those and only those at places skip+1 to
\* skip+limit of that order, so at most limit records and none twice.
C12_ListingWindow ==
    [][\A s \in Sessions :
        Completes(s, "list_jobs") /\ ValidQuery(sess'[s].payload) =>
            LET query == sess'[s].payload
                result == Val(sess'[s].result)
                body == Val(result.body)
            IN
            /\ result.kind = "ok"
            /\ result.status = 200
            /\ Len(body) <= query.limit
            /\ \A k \in 1..(Len(body) - 1) : body[k].id > body[k + 1].id
            /\ \A k \in 1..Len(body) :
                /\ body[k].id \in DOMAIN jobs
                /\ body[k] = jobs[body[k].id]
            /\ \A i \in DOMAIN jobs :
                (\E k \in 1..Len(body) : body[k].id = i)
                    <=> /\ Matches(jobs[i], query)
                        /\ RankOf(i, query) > query.skip
                        /\ RankOf(i, query) <= query.skip + query.limit
      ]_vars

\* C13: a list_jobs with no or an enumerated platform filter succeeds and
\* returns only records whose is_active is the filter's and whose platform is
\* the platform filter's when one is given; with no record passing the filters
\* it returns the empty list; the first page of the inactive records holds a
\* record that delete_job left inactive.
C13_ListingFilters ==
    [][\A s \in Sessions :
        Completes(s, "list_jobs") /\ ValidQuery(sess'[s].payload) =>
            LET query == sess'[s].payload
                result == Val(sess'[s].result)
                body == Val(result.body)
                passing == {i \in DOMAIN jobs : Matches(jobs[i], query)}
            IN
            /\ result.kind \notin {"BusinessLogicError", "NotFoundError"}
            /\ result.status = 200
            /\ \A k \in 1..Len(body) : Matches(body[k], query)
            /\ passing = {} => body = <<>>
            /\ query.skip = 0 /\ Cardinality(passing) <= query.limit =>
                    \A i \in passing : \E k \in 1..Len(body) : body[k].id = i
      ]_vars

----------------------------------------------------------------------------
(* Faults of the service *)

ServiceOperations == {"get_job", "list_jobs", "create_job", "update_job", "delete_job"}

\* C15: whatever the repository does, a service operation ends in success, in
\* a not-found fault or in a business fault, and never in RepositoryError or
\* DuplicateJobError.
C15_ServiceFaults ==
    \A s \in Sessions :
        sess[s].pc = "done" /\ sess[s].op \in ServiceOperations =>
            Result(s).kind \in {"ok", "NotFoundError", "BusinessLogicError"}

----------------------------------------------------------------------------
(* The frame of update_job *)

\* The fields of a payload that update_job hands on: all but the pair.
Supplied(payload) == DOMAIN payload \ {"external_id", "platform"}

\* C14: an update_job that succeeds leaves the record with the supplied value
\* in every field the payload supplies (external_id and platform aside), and
\* with its stored value in every other field but updated_at, id and
\* created_at among them; it changes no other record.
C14_UpdateFrame ==
    [][\A s \in Sessions :
        Writes(s, "update_job") /\ Val(sess'[s].result).kind = "ok" =>
            LET id == sess[s].job_id
                payload == sess[s].payload
            IN
            /\ DOMAIN jobs' = DOMAIN jobs
            /\ \A c \in Supplied(payload) : jobs'[id][c] = payload[c]
            /\ \A c \in DOMAIN jobs[id] \ (Supplied(payload) \cup {"updated_at"}) :
                    jobs'[id][c] = jobs[id][c]
            /\ \A i \in DOMAIN jobs \ {id} : jobs'[i] = jobs[i]
      ]_vars

----------------------------------------------------------------------------
(* The repository under failures of the storage engine *)

RepositoryOperations ==
    {"get_by_id", "get_all", "create", "update", "delete", "get_by_external_id"}

DomainErrors == {"DuplicateJobError", "RepositoryError"}

\* The repository calls a session has issued in the operation it runs.
CallsOf(s) == {sess[s].repo_calls[k] : k \in 1..Len(sess[s].repo_calls)}

C17_WriteClassified ==
    \A s \in Sessions :
        (Done(s, "create") \/ Done(s, "update")) =>
            \A c \in CallsOf(s) :
                LET answer == <<Result(s).kind, Result(s).detail>> IN
                /\ c.constraint = "uq_jobs_external_id_platform" =>
                        answer = <<"DuplicateJobError", MsgDuplicateJob>>
                /\ c.constraint \notin {"", "uq_jobs_external_id_platform"} =>
                        answer = <<"RepositoryError", MsgIntegrity(c.fn)>>
                /\ c.constraint = "" /\ c.failed \in {"commit", "refresh"} =>
                        answer = <<"RepositoryError", MsgWriteFailed(c.fn)>>

WriteSteps == {"commit", "refresh", "delete"}

----------------------------------------------------------------------------
(* Conflict answers *)

----------------------------------------------------------------------------
(* Records that are not there *)

ById == {"get_job", "update_job", "delete_job"}

\* The storage engine failed in no repository call of the session.
StorageHeld(session) ==
    \A k \in 1..Len(session.repo_calls) : session.repo_calls[k].failed = ""

----------------------------------------------------------------------------
(* The creation metric *)

\* C21: a create_job whose repository create succeeded returns the created
\* record (201) however the recording of the creation metric ends.
C21_MetricSwallowed ==
    \A s \in Sessions :
        /\ Done(s, "create_job")
        /\ \E c \in CallsOf(s) : c.fn = "create" /\ c.raised = ""
        => /\ Result(s).kind = "ok"
           /\ Result(s).status = 201
           /\ \E i \in DOMAIN jobs : Result(s).body = Some(jobs[i])

----------------------------------------------------------------------------
(* Health *)

\* How the ping of a dependency of a health check ended.
PingOf(s, dependency) == sess[s].payload[dependency]

\* The status a probe determines on its own from how its ping ended.
OwnStatus(ping) == IF ping = "" THEN "healthy" ELSE "unhealthy"

\* C22: when the ping of one dependency timed out, the health check returns
\* a payload without an exception reaching its caller, the payload says
\* 'unhealthy' for that dependency and gives the other dependency the status
\* its own probe determined.
C22_ProbeTimeoutIsolated ==
    \A s \in Sessions : \A d \in Dependencies :
        /\ Done(s, "health")
        /\ d \in DOMAIN sess[s].payload
        /\ PingOf(s, d) = "TimeoutError"
        => LET payload == Val(Result(s).body) IN
           /\ Result(s).detail = <<>>
           /\ payload.error = None
           /\ DOMAIN sess[s].payload = Dependencies
           /\ payload.services[d].status = "unhealthy"
           /\ \A e \in Dependencies \ {d} :
                payload.services[e].status = OwnStatus(PingOf(s, e))

SubStatuses == {"database", "redis", "api"}

\* C23: the overall status of a health payload is 'healthy' exactly when it
\* carries the database, redis and api statuses and all three are 'healthy';
\* an 'unhealthy' payload is answered 503.
C23_OverallStatus ==
    \A s \in Sessions :
        Done(s, "health") =>
            LET payload == Val(Result(s).body)
                all_healthy ==
                    \A d \in SubStatuses :
                        /\ d \in DOMAIN payload.services
                        /\ payload.services[d].status = "healthy"
            IN
            /\ payload.status \in {"healthy", "unhealthy"}
            /\ payload.status = "healthy" <=> all_healthy
            /\ payload.status = "unhealthy" => Result(s).status = 503

\* The database is healthy, redis timed out: unhealthy and 503.
C23_Witness ==
    \E s \in Sessions :
        /\ Done(s, "health")
        /\ Val(Result(s).body).services =
                [database |-> Healthy, redis |-> Unhealthy("timeout after"),
                 api |-> _check_api]
        /\ Val(Result(s).body).status = "unhealthy"
        /\ Result(s).status = 503

----------------------------------------------------------------------------
(* Sessions *)

\* C24: the requests in flight hold sessions of their own, and when a
\* request is over its session has been released, whether the route
\* returned, raised a not-found or business fault, or raised another
\* exception.
C24_SessionPerRequest ==
    /\ \A s, t \in Sessions :
        /\ s # t
        /\ sess[s].op = "request" /\ sess[t].op = "request"
        => Val(sess[s].existing).session # Val(sess[t].existing).session
    /\ \A s \in Sessions :
        Done(s, "request") => ~Val(sess[s].existing).open

----------------------------------------------------------------------------
(* Protected fields *)

\* The field names repository update must refuse: the protected ones, those
\* that start with '_' and those that are no column.
RefusedOnUpdate(data) ==
    \E f \in DOMAIN data :
        f \in {"id", "created_at", "updated_at", "_hidden"} \/ f \notin ColumnNames

RefusedOnCreate(data) == DOMAIN data \cap {"id", "created_at"} # {}

\* C25: a repository update of a stored record with a field map naming a
\* protected field, a name starting with '_' or a name that is no column,
\* and a repository create with a field map naming id or created_at, raise
\* a validation failure and write nothing; no step of the repository or of
\* the service changes the id or the created_at of a stored record.
C25_ProtectedFields ==
    [][/\ \A s \in Sessions :
            LET after == sess'[s]
                refused ==
                    \/ /\ after.op = "update"
                       /\ after.job_id \in DOMAIN jobs
                       /\ StorageHeld(after)
                       /\ RefusedOnUpdate(after.payload)
                    \/ /\ after.op = "create"
                       /\ RefusedOnCreate(after.payload)
            IN
            sess[s].pc = "idle" /\ after.pc = "done" /\ refused =>
                /\ Val(after.result).kind = "ValueError"
                /\ jobs' = jobs
       /\ \A i \in DOMAIN jobs \cap DOMAIN jobs' :
            /\ jobs'[i].id = jobs[i].id
            /\ jobs'[i].created_at = jobs[i].created_at
      ]_vars

\* An update naming created_at next to a title was refused and the record
\* is as it was created.
C25_Witness ==
    \E s \in Sessions :
        /\ Done(s, "update")
        /\ sess[s].job_id \in DOMAIN jobs
        /\ DOMAIN sess[s].payload = {"title", "created_at"}
        /\ Result(s).kind = "ValueError"
        /\ jobs[sess[s].job_id].title = Some("Engineer")

----------------------------------------------------------------------------
(* Descriptions over time *)

DescriptionFields == {"description_short", "description_full"}

\* The length of a stored description, absent counting as 0.
StoredLength(row, f) == IF row[f] = None THEN 0 ELSE Len(Val(row[f]))

\* C26: over the service operations the length of the stored
\* description_short and description_full of a record never decreases.
C26_DescriptionMonotonic ==
    [][\A i \in DOMAIN jobs \cap DOMAIN jobs' : \A f \in DescriptionFields :
            StoredLength(jobs'[i], f) >= StoredLength(jobs[i], f)
      ]_vars

\* C27: an update_job that succeeds with a non-null description_short or
\* description_full in its payload stores a value strictly longer than the
\* one stored just before its write, also when another update_job wrote the
\* record between its read and its write.
C27_GrowthAgainstStored ==
    [][\A s \in Sessions :
        Writes(s, "update_job") /\ Val(sess'[s].result).kind = "ok" =>
            \A f \in DescriptionFields \cap DOMAIN sess[s].payload :
                sess[s].payload[f] # None =>
                    /\ jobs'[sess[s].job_id][f] = sess[s].payload[f]
                    /\ StoredLength(jobs'[sess[s].job_id], f)
                        > StoredLength(jobs[sess[s].job_id], f)
      ]_vars

----------------------------------------------------------------------------
(* Faults and the store *)

\* C28: a create_job or update_job that ends in a business fault or in a
\* not-found fault leaves the table as it was, whichever step of the write
\* the storage engine failed at, the refresh after the commit included.
C28_FaultLeavesStore ==
    [][\A s \in Sessions :
        /\ sess[s].pc # "done" /\ sess'[s].pc = "done"
        /\ sess'[s].op \in {"create_job", "update_job"}
        /\ Val(sess'[s].result).kind \in {"BusinessLogicError", "NotFoundError"}
        => jobs' = jobs
      ]_vars

----------------------------------------------------------------------------
(* Inactive records *)

\* The ids a record can have.
RecordIds == 1..MaxCalls

Inactive(i) == i \in DOMAIN jobs /\ jobs[i].is_active = Some(FALSE)

\* Among the requests of the listing no create and no update names
\* is_active false: a record is stored active and becomes inactive only in
\* the write of a delete_job that is answered 204.
InactiveOnlyByDelete ==
    [][\A i \in DOMAIN jobs' :
        jobs'[i].is_active # Some(TRUE) /\ (i \in DOMAIN jobs => ~Inactive(i)) =>
            \E s \in Sessions :
                /\ Writes(s, "delete_job")
                /\ sess[s].job_id = i
                /\ Val(sess'[s].result).kind = "ok"
      ]_vars

\* C30 as stated: once delete_job has succeeded for a record, the record is
\* inactive from then on, whatever service operations follow.  A record is
\* inactive here only by a delete_job that succeeded (InactiveOnlyByDelete),
\* so the claim is that no step takes a record from inactive to active.
C30_StaysInactive ==
    [][\A i \in RecordIds : Inactive(i) => Inactive(i)']_vars

\* C30: a record that is inactive becomes active again only in the write of
\* an update_job whose payload sets is_active to true; no other step of a
\* service operation, and no update_job that does not name is_active,
\* reactivates it.
C30_ReactivatedOnlyByUpdate ==
    [][\A i \in DOMAIN jobs \cap DOMAIN jobs' :
        jobs[i].is_active = Some(FALSE) /\ jobs'[i].is_active # Some(FALSE) =>
            \E s \in Sessions :
                /\ Writes(s, "update_job")
                /\ sess[s].job_id = i
                /\ "is_active" \in DOMAIN sess[s].payload
                /\ sess[s].payload["is_active"] = Some(TRUE)
                /\ Val(sess'[s].result).kind = "ok"
      ]_vars

\* An update_job that read the record while it was active wrote its title
\* after a delete_job: the record has the title and is still inactive.
C30_Witness ==
    \E s \in Sessions :
        /\ Done(s, "update_job")
        /\ Result(s).kind = "ok"
        /\ DOMAIN sess[s].payload = {"title"}
        /\ Val(sess[s].existing).is_active = Some(TRUE)
        /\ jobs[sess[s].job_id].title = sess[s].payload["title"]
        /\ Inactive(sess[s].job_id)

----------------------------------------------------------------------------
(* Rejected updates *)

\* The last call on session s was a repository update that ended in the
\* ValueError of a refused field.
Rejected(s) ==
    /\ sess[s].pc = "open"
    /\ sess[s].op = "update"
    /\ Result(s).kind = "ValueError"

\* C29: a repository update that ends in a validation failure has applied
\* none of the fields of its field map, so the session holds no pending
\* change of it: the call that follows on the same session (a create, an
\* update or a delete, with its commit) stores no value of the rejected
\* field map in a field it does not name itself.
C29_RejectedUpdateAppliesNothing ==
    [][\A s \in Sessions :
        Rejected(s) /\ sess'[s] # sess[s] =>
            \A i \in DOMAIN jobs \cap DOMAIN jobs' :
                \A f \in (DOMAIN sess[s].payload \cap ColumnNames) \ PROTECTED_UPDATE_FIELDS :
                    f \notin DOMAIN sess'[s].payload /\ jobs'[i][f] # jobs[i][f] =>
                        jobs'[i][f] # sess[s].payload[f]
      ]_vars

====
